---- MODULE Spec2Model ----
(***************************************************************************)
(* backedup: retention planning over timestamped file names.               *)
(*                                                                         *)
(* The model follows src/src/lib.rs (SlotConfig, Config, BackupEntry,      *)
(* Plan), src/src/main.rs and src/src/config/{mod,file}.rs (the two        *)
(* command-line flows that build a Plan).                                  *)
(*                                                                         *)
(* Text is modelled as sequences of units: one unit is one character, or   *)
(* one byte that is not part of any valid UTF-8 encoding.  A path is a     *)
(* record of its parent directory and its final component.                 *)
(***************************************************************************)
EXTENDS Integers, Sequences, FiniteSets, TLC

\* ------------------------------------------------------------------ bounds

\* Largest number of directory entries handed to Plan::from.
MaxFiles == 3

\* Largest retention count per tier drawn when planning.
MaxSlot == 1

\* Width of usize in bits.  usize is pointer-wide; the model takes the
\* narrowest width a Rust target has, the arithmetic is the same at any width.
USIZE_BITS == 16

USIZE_MOD == 2 ^ USIZE_BITS

USIZE_MAX == USIZE_MOD - 1

U16_MAX == 65535

U8_MAX == 255

\* ------------------------------------------------------------------ Option / Result

None == [some |-> FALSE, v |-> <<>>]

Some(x) == [some |-> TRUE, v |-> x]

\* ------------------------------------------------------------------ text

AsciiDigits == {"0", "1", "2", "3", "4", "5", "6", "7", "8", "9"}

\* A decimal digit outside ASCII (ARABIC-INDIC DIGIT TWO): the regex crate's
\* \d is Unicode-aware and matches it, str::parse does not accept it.
UnicodeDigits == {"u0662"}

\* A byte that is no valid UTF-8 (tests::test_invalid_utf_entry uses \xe7).
InvalidBytes == {"xE7"}

\* Byte value of a unit (first byte for a multi-byte character): the order of
\* OsStr comparison.
Code ==
  ("-" :> 45) @@ ("." :> 46) @@ ("0" :> 48) @@ ("1" :> 49) @@ ("2" :> 50) @@
  ("3" :> 51) @@ ("4" :> 52) @@ ("5" :> 53) @@ ("6" :> 54) @@ ("7" :> 55) @@
  ("8" :> 56) @@ ("9" :> 57) @@ ("b" :> 98) @@ ("e" :> 101) @@ ("g" :> 103) @@
  ("k" :> 107) @@ ("l" :> 108) @@ ("n" :> 110) @@ ("o" :> 111) @@
  ("s" :> 115) @@ ("t" :> 116) @@ ("u0662" :> 217) @@ ("xE7" :> 231)

DigitVal(c) == Code[c] - Code["0"]

\* OsStr::to_str: None when the bytes are not valid UTF-8.
ToStr(s) == IF \E i \in 1..Len(s) : s[i] \in InvalidBytes THEN None ELSE Some(s)

\* Path::to_str of a whole path: parent and final component.
PathToStr(p) ==
  IF ToStr(p.parent).some /\ ToStr(p.name).some THEN Some(p) ELSE None

\* Lexicographic order of two unit sequences by byte value.
RECURSIVE SeqLess(_, _)
SeqLess(a, b) ==
  IF b = <<>> THEN FALSE
  ELSE IF a = <<>> THEN TRUE
  ELSE IF Code[Head(a)] # Code[Head(b)] THEN Code[Head(a)] < Code[Head(b)]
  ELSE SeqLess(Tail(a), Tail(b))

\* Path's ordering: by components, parent first.
PathLess(p, q) ==
  IF p.parent # q.parent THEN SeqLess(p.parent, q.parent) ELSE SeqLess(p.name, q.name)

\* str::parse::<uN>: decimal ASCII digits only, the value must fit the width.
RECURSIVE DecimalValue(_)
DecimalValue(s) ==
  IF s = <<>> THEN 0
  ELSE DecimalValue(SubSeq(s, 1, Len(s) - 1)) * 10 + DigitVal(s[Len(s)])

ParseUint(s, max) ==
  IF s = <<>> \/ (\E i \in 1..Len(s) : s[i] \notin AsciiDigits) THEN None
  ELSE IF DecimalValue(s) > max THEN None
  ELSE Some(DecimalValue(s))

\* ------------------------------------------------------------------ WildMatch

\* WildMatch::matches: '*' matches any run of characters, '?' any one character.
RECURSIVE WildFrom(_, _, _, _)
WildFrom(w, s, i, j) ==
  IF i > Len(w) THEN j > Len(s)
  ELSE IF w[i] = "*" THEN
    \E k \in j..(Len(s) + 1) : WildFrom(w, s, i + 1, k)
  ELSE IF j > Len(s) THEN FALSE
  ELSE IF w[i] = "?" \/ w[i] = s[j] THEN WildFrom(w, s, i + 1, j + 1)
  ELSE FALSE

WildMatches(w, s) == WildFrom(w, s, 1, 1)

\* ------------------------------------------------------------------ Regex

GroupNames == {"year", "month", "day", "hour", "minute", "second"}

\* \d of the regex crate (Unicode mode).
IsReDigit(c) == c \in AsciiDigits \cup UnicodeDigits

DigitsAt(s, i, n) ==
  /\ i + n - 1 <= Len(s)
  /\ \A k \in i..(i + n - 1) : IsReDigit(s[k])

\* \D? is greedy: it takes a non-digit when one is there.
SkipSep(s, i) == IF i <= Len(s) /\ ~IsReDigit(s[i]) THEN i + 1 ELSE i

\* The built-in grammar RE anchored at position i: the captures, or None.
DefaultMatchAt(s, i) ==
  LET m == SkipSep(s, i + 4)
      d == SkipSep(s, m + 2)
      h == SkipSep(s, d + 2)
      n == SkipSep(s, h + 2)
      e == SkipSep(s, n + 2)
      block == DigitsAt(s, h, 2) /\ DigitsAt(s, n, 2)
  IN IF DigitsAt(s, i, 4) /\ DigitsAt(s, m, 2) /\ DigitsAt(s, d, 2)
     THEN Some([g \in GroupNames |->
            CASE g = "year" -> Some(SubSeq(s, i, i + 3))
              [] g = "month" -> Some(SubSeq(s, m, m + 1))
              [] g = "day" -> Some(SubSeq(s, d, d + 1))
              [] g = "hour" -> IF block THEN Some(SubSeq(s, h, h + 1)) ELSE None
              [] g = "minute" -> IF block THEN Some(SubSeq(s, n, n + 1)) ELSE None
              [] OTHER -> IF block /\ DigitsAt(s, e, 2)
                          THEN Some(SubSeq(s, e, e + 1)) ELSE None])
     ELSE None

\* A supplied grammar of the shape (?P<g1>\d{w1})(?P<g2>\d{w2})... anchored at i.
RECURSIVE ConcatOffset(_, _)
ConcatOffset(groups, k) ==
  IF k = 1 THEN 0 ELSE ConcatOffset(groups, k - 1) + groups[k - 1].width

ConcatMatchAt(groups, s, i) ==
  IF \A k \in 1..Len(groups) :
       DigitsAt(s, i + ConcatOffset(groups, k), groups[k].width)
  THEN Some([g \in GroupNames |->
         IF \E k \in 1..Len(groups) : groups[k].name = g
         THEN LET k == CHOOSE k \in 1..Len(groups) : groups[k].name = g
                  o == i + ConcatOffset(groups, k)
              IN Some(SubSeq(s, o, o + groups[k].width - 1))
         ELSE None])
  ELSE None

MatchAt(re, s, i) ==
  IF re.kind = "default" THEN DefaultMatchAt(s, i) ELSE ConcatMatchAt(re.groups, s, i)

\* Regex::captures: the leftmost match, searched from position i on.
RECURSIVE CapturesFrom(_, _, _)
CapturesFrom(re, s, i) ==
  IF i > Len(s) + 1 THEN None
  ELSE LET m == MatchAt(re, s, i)
       IN IF m.some THEN m ELSE CapturesFrom(re, s, i + 1)

Captures(re, s) == CapturesFrom(re, s, 1)

\* Regex::capture_names().flatten(): the named groups of the grammar.
CaptureNames(re) ==
  IF re.kind = "default" THEN GroupNames
  ELSE {re.groups[k].name : k \in 1..Len(re.groups)}

\* lazy_static RE.
RE == [kind |-> "default", groups |-> <<>>]

\* ------------------------------------------------------------------ Result

Ok(x) == [tag |-> "Ok", v |-> x]

Err(e) == [tag |-> "Err", v |-> e]

\* The thread panicked (an arithmetic overflow check, a failed assertion, an
\* unwrap of None).
Panic == [tag |-> "Panic", v |-> <<>>]

\* ------------------------------------------------------------------ SlotConfig

\* usize addition: a panic with overflow checks on (debug profile), wrapping
\* without (release profile).  The operand None stands for a panic upstream.
AddUsize(a, b, overflow_checks) ==
  IF ~a.some THEN None
  ELSE IF a.v + b < USIZE_MOD THEN Some(a.v + b)
  ELSE IF overflow_checks THEN None
  ELSE Some((a.v + b) % USIZE_MOD)

SlotConfigNew(years, months, days, hours, minutes, overflow_checks) ==
  LET sum == AddUsize(AddUsize(AddUsize(AddUsize(Some(years), months,
                 overflow_checks), days, overflow_checks), hours,
                 overflow_checks), minutes, overflow_checks)
  IN IF ~sum.some THEN Panic
     ELSE IF sum.v = 0 THEN Err(<<"NoSlot">>)
     ELSE Ok([yearly |-> years, monthly |-> months, daily |-> days,
              hourly |-> hours, minutely |-> minutes])

\* ------------------------------------------------------------------ Config

\* A grammar source that Regex::new rejects (tests::test_invalid_regex).
BadRegex == [kind |-> "invalid", groups |-> <<>>]

RequiredGroups == <<"year", "month", "day">>

\* Mutant of FirstMissing: the last required name the grammar lacks.
RECURSIVE FirstMissing_Last(_, _)
FirstMissing_Last(names, k) ==
  IF k > Len(RequiredGroups) THEN None
  ELSE LET rest == FirstMissing_Last(names, k + 1)
       IN IF rest.some THEN rest
          ELSE IF RequiredGroups[k] \notin names THEN Some(RequiredGroups[k])
          ELSE None

\* The loop over ["year", "month", "day"]: the first name capture_names lacks.
RECURSIVE FirstMissing(_, _)
FirstMissing(names, k) ==
  IF k > Len(RequiredGroups) THEN None
  ELSE IF RequiredGroups[k] \notin names THEN Some(RequiredGroups[k])
  ELSE FirstMissing(names, k + 1)

\* Mutant of Config::new: the grammar is accepted without validation.
ConfigNew_Unchecked(slot_config, pattern, re_str) ==
  Ok([slots |-> slot_config, pattern |-> pattern,
      re |-> IF re_str.some THEN re_str.v ELSE RE])

ConfigNew(slot_config, pattern, re_str) ==
  IF re_str.some /\ re_str.v.kind = "invalid" THEN Err(<<"InvalidRegex">>)
  ELSE LET re == IF re_str.some THEN re_str.v ELSE RE
           missing == FirstMissing(CaptureNames(re), 1)
       IN IF missing.some THEN Err(<<"MissingCaptureGroup", missing.v>>)
          ELSE Ok([slots |-> slot_config, pattern |-> pattern, re |-> re])

\* ------------------------------------------------------------------ BackupEntry

\* m.name(g)?.as_str().parse().ok()? for a required group.
RequiredField(m, g, max) ==
  IF m[g].some THEN ParseUint(m[g].v, max) ELSE None

\* m.name(g).and_then(|s| s.as_str().parse().ok()).unwrap_or(0)
OptionalField(m, g, max) ==
  IF m[g].some /\ ParseUint(m[g].v, max).some THEN ParseUint(m[g].v, max).v ELSE 0

\* Mutant of BackupEntryNew: the name filter is not applied.
BackupEntryNew_NoFilter(path, pattern, re) ==
  LET filename == ToStr(path.name)
  IN IF ~filename.some THEN None
     ELSE LET m == Captures(re, filename.v)
          IN IF ~m.some THEN None
             ELSE LET year == RequiredField(m.v, "year", U16_MAX)
                      month == RequiredField(m.v, "month", U8_MAX)
                      day == RequiredField(m.v, "day", U8_MAX)
                  IN IF ~year.some \/ ~month.some \/ ~day.some THEN None
                     ELSE Some([year |-> year.v, month |-> month.v, day |-> day.v,
                                hour |-> OptionalField(m.v, "hour", U8_MAX),
                                minute |-> OptionalField(m.v, "minute", U8_MAX),
                                path |-> path])

BackupEntryNew(path, pattern, re) ==
  LET filename == ToStr(path.name)
  IN IF ~filename.some THEN None
     ELSE IF pattern # <<>> /\
             ~(\E k \in 1..Len(pattern) : WildMatches(pattern[k], filename.v))
     THEN None
     ELSE LET m == Captures(re, filename.v)
          IN IF ~m.some THEN None
             ELSE LET year == RequiredField(m.v, "year", U16_MAX)
                      month == RequiredField(m.v, "month", U8_MAX)
                      day == RequiredField(m.v, "day", U8_MAX)
                  IN IF ~year.some \/ ~month.some \/ ~day.some THEN None
                     ELSE Some([year |-> year.v, month |-> month.v, day |-> day.v,
                                hour |-> OptionalField(m.v, "hour", U8_MAX),
                                minute |-> OptionalField(m.v, "minute", U8_MAX),
                                path |-> path])

get_ordering_tuple(e) == <<e.year, e.month, e.day, e.hour, e.minute>>

\* Lexicographic order of two integer tuples of one length.
RECURSIVE TupleLess(_, _)
TupleLess(a, b) ==
  IF a = <<>> \/ b = <<>> THEN FALSE
  ELSE IF Head(a) # Head(b) THEN Head(a) < Head(b)
  ELSE TupleLess(Tail(a), Tail(b))

\* impl Ord for BackupEntry: the ordering tuple alone, the path takes no part.
cmp(a, b) ==
  IF TupleLess(get_ordering_tuple(a), get_ordering_tuple(b)) THEN "Less"
  ELSE IF TupleLess(get_ordering_tuple(b), get_ordering_tuple(a)) THEN "Greater"
  ELSE "Equal"

\* #[derive(PartialOrd)]: field by field, the path last.
DerivedLt(a, b) ==
  \/ TupleLess(get_ordering_tuple(a), get_ordering_tuple(b))
  \/ /\ get_ordering_tuple(a) = get_ordering_tuple(b)
     /\ PathLess(a.path, b.path)

\* ------------------------------------------------------------------ BTreeSet

\* A BTreeSet<BackupEntry> is modelled as the sequence of its elements in
\* iteration order.

\* BTreeSet::insert: the tree is searched with Ord::cmp; an element that
\* compares Equal to one already present is not inserted.
BTreeSetInsert(set, e) ==
  IF \E i \in 1..Len(set) : cmp(set[i], e) = "Equal" THEN set
  ELSE LET n == Cardinality({i \in 1..Len(set) : cmp(set[i], e) = "Less"})
       IN SubSeq(set, 1, n) \o <<e>> \o SubSeq(set, n + 1, Len(set))

\* collect() as a loop of insert (FromIterator of the standard library up to
\* Rust 1.58).
RECURSIVE CollectInsert(_, _)
CollectInsert(set, items) ==
  IF items = <<>> THEN set
  ELSE CollectInsert(BTreeSetInsert(set, Head(items)), Tail(items))

\* Stable insertion of e into a sequence sorted by the derived `lt`.
SortedInsert(sorted, e) ==
  LET n == Cardinality({i \in 1..Len(sorted) : ~DerivedLt(e, sorted[i])})
  IN SubSeq(sorted, 1, n) \o <<e>> \o SubSeq(sorted, n + 1, Len(sorted))

RECURSIVE StableSort(_, _)
StableSort(sorted, items) ==
  IF items = <<>> THEN sorted
  ELSE StableSort(SortedInsert(sorted, Head(items)), Tail(items))

\* Of neighbours that are == (derived PartialEq: every field, the path
\* included) only the last is kept.
RECURSIVE DedupSorted(_)
DedupSorted(items) ==
  IF Len(items) <= 1 THEN items
  ELSE IF items[1] = items[2] THEN DedupSorted(Tail(items))
  ELSE <<items[1]>> \o DedupSorted(Tail(items))

\* collect() as sort-then-bulk-build (FromIterator of the standard library
\* since Rust 1.59): slice::sort orders by PartialOrd::lt, the bulk build
\* drops neighbours that are ==.
CollectBulk(items) == DedupSorted(StableSort(<<>>, items))

\* Ord::cmp ignores the path while the derived PartialOrd and PartialEq use
\* it, so what collect() holds for entries of one timestamp is not specified
\* by BTreeSet; the two implementations the standard library has had are the
\* outcomes a build can produce.
Collect(items, collect_impl) ==
  IF collect_impl = "insert" THEN CollectInsert(<<>>, items) ELSE CollectBulk(items)

\* The merge of BTreeSet::difference (DifferenceInner::Stitch).
RECURSIVE Stitch(_, _)
Stitch(self, other) ==
  IF self = <<>> THEN <<>>
  ELSE IF other = <<>> THEN self
  ELSE IF cmp(Head(self), Head(other)) = "Less"
       THEN <<Head(self)>> \o Stitch(Tail(self), other)
  ELSE IF cmp(Head(self), Head(other)) = "Equal"
       THEN Stitch(Tail(self), Tail(other))
  ELSE Stitch(self, Tail(other))

\* BTreeSet::difference: by the position of the two ranges it iterates self
\* whole, without its first or its last element, looks each element up in
\* other, or merges the two.
Difference(self, other) ==
  IF self = <<>> \/ other = <<>> THEN self
  ELSE LET lo == cmp(self[1], other[Len(other)])
           hi == cmp(self[Len(self)], other[1])
       IN IF lo = "Greater" \/ hi = "Less" THEN self
          ELSE IF lo = "Equal" THEN Tail(self)
          ELSE IF hi = "Equal" THEN SubSeq(self, 1, Len(self) - 1)
          ELSE IF Len(self) <= Len(other) \div 16
               THEN SelectSeq(self,
                      LAMBDA x : ~(\E i \in 1..Len(other) : cmp(other[i], x) = "Equal"))
          ELSE Stitch(self, other)

\* ------------------------------------------------------------------ Plan::from

Periods == <<"Years", "Months", "Days", "Hours", "Minutes">>

\* The key of an entry in the map of tier t: (year), (year, month), ...
SlotKey(e, t) == SubSeq(get_ordering_tuple(e), 1, t)

\* The retention count of tier t.
SlotCount(slots, t) ==
  CASE t = 1 -> slots.yearly
    [] t = 2 -> slots.monthly
    [] t = 3 -> slots.daily
    [] t = 4 -> slots.hourly
    [] OTHER -> slots.minutely

\* BTreeMap::insert: a key already present keeps its place and takes the new
\* value.
BTreeMapInsert(map, k, val) ==
  [x \in DOMAIN map \cup {k} |-> IF x = k THEN val ELSE map[x]]

\* Mutant of FillOrder: the loop without .rev().
FillOrder_Forward(entries) == entries

\* The order in which the loop that fills the maps visits the entries.
FillOrder(entries) == [i \in 1..Len(entries) |-> entries[Len(entries) + 1 - i]]

\* for entry in entries.iter().rev() { <tier>_slots.insert(key, entry) }
RECURSIVE FillSlots(_, _, _)
FillSlots(map, visit, t) ==
  IF visit = <<>> THEN map
  ELSE FillSlots(BTreeMapInsert(map, SlotKey(Head(visit), t), Head(visit)),
                 Tail(visit), t)

SlotMap(entries, t) == FillSlots(<<>>, FillOrder(entries), t)

\* Mutant of KeysDescending: the loop without .rev(), the keys from the least up.
RECURSIVE KeysDescending_Ascending(_)
KeysDescending_Ascending(keys) ==
  IF keys = {} THEN <<>>
  ELSE LET low == CHOOSE k \in keys : \A o \in keys : ~TupleLess(o, k)
       IN <<low>> \o KeysDescending_Ascending(keys \ {low})

\* map.into_iter().rev(): the keys from the greatest down.
RECURSIVE KeysDescending(_)
KeysDescending(keys) ==
  IF keys = {} THEN <<>>
  ELSE LET top == CHOOSE k \in keys : \A o \in keys : ~TupleLess(k, o)
       IN <<top>> \o KeysDescending(keys \ {top})

\* Mutant of Take: one element too many.
Take_OneMore(seq, n) == SubSeq(seq, 1, IF n + 1 < Len(seq) THEN n + 1 ELSE Len(seq))

\* .take(n)
Take(seq, n) == SubSeq(seq, 1, IF n < Len(seq) THEN n ELSE Len(seq))

\* The entries one tier selects, in the order of its loop.
Selected(entries, slots, t) ==
  LET map == SlotMap(entries, t)
      keys == Take(KeysDescending(DOMAIN map), SlotCount(slots, t))
  IN [i \in 1..Len(keys) |-> map[keys[i]]]

\* period_map.entry(path).or_default().push(period)
PushPeriod(period_map, path, period) ==
  [p \in DOMAIN period_map \cup {path} |->
     IF p = path
     THEN (IF path \in DOMAIN period_map THEN period_map[path] ELSE <<>>) \o <<period>>
     ELSE period_map[p]]

\* One of the five selection loops: acc is [to_keep, period_map].
RECURSIVE KeepLoop(_, _, _)
KeepLoop(acc, selected, t) ==
  IF selected = <<>> THEN acc
  ELSE KeepLoop([to_keep |-> BTreeSetInsert(acc.to_keep, Head(selected)),
                 period_map |-> PushPeriod(acc.period_map, Head(selected).path,
                                           Periods[t])],
                Tail(selected), t)

RECURSIVE KeepTiers(_, _, _, _)
KeepTiers(acc, entries, slots, t) ==
  IF t > Len(Periods) THEN acc
  ELSE KeepTiers(KeepLoop(acc, Selected(entries, slots, t), t), entries, slots, t + 1)

Paths(set) == [i \in 1..Len(set) |-> set[i].path]

\* entries.into_iter().filter_map(|x| BackupEntry::new(x, ..)): the entries of
\* the valid paths, in the order of the listing.
RECURSIVE FilterMap(_, _)
FilterMap(config, entries) ==
  IF entries = <<>> THEN <<>>
  ELSE LET e == BackupEntryNew(Head(entries), config.pattern, config.re)
       IN (IF e.some THEN <<e.v>> ELSE <<>>) \o FilterMap(config, Tail(entries))

PlanFrom(config, entries, collect_impl) ==
  LET set == Collect(FilterMap(config, entries), collect_impl)
      acc == KeepTiers([to_keep |-> <<>>, period_map |-> <<>>], set, config.slots, 1)
      to_remove == Paths(Difference(set, acc.to_keep))
      to_keep == Paths(acc.to_keep)
  IN IF Len(set) # Len(to_keep) + Len(to_remove) THEN Panic
     ELSE Ok([to_keep |-> to_keep, to_remove |-> to_remove,
              period_map |-> acc.period_map, path |-> None])

\* ------------------------------------------------------------------ inputs

\* File names a directory may hold.
\* "20141231"
F_2014_12_31 == <<"2", "0", "1", "4", "1", "2", "3", "1">>

\* "2015-01-01"
F_2015_01_01 == <<"2", "0", "1", "5", "-", "0", "1", "-", "0", "1">>

\* "2015-01-01.log": the timestamp of "2015-01-01" (tests::test_make_plan
\* lists such pairs).
F_2015_01_01_log ==
  <<"2", "0", "1", "5", "-", "0", "1", "-", "0", "1", ".", "l", "o", "g">>

\* "201501011030.log"
F_2015_01_01_1030_log ==
  <<"2", "0", "1", "5", "0", "1", "0", "1", "1", "0", "3", "0", ".", "l", "o", "g">>

\* "201501011045"
F_2015_01_01_1045 == <<"2", "0", "1", "5", "0", "1", "0", "1", "1", "0", "4", "5">>

\* "20150102.log"
F_2015_01_02_log == <<"2", "0", "1", "5", "0", "1", "0", "2", ".", "l", "o", "g">>

\* "2015-02-01"
F_2015_02_01 == <<"2", "0", "1", "5", "-", "0", "2", "-", "0", "1">>

\* "notes.log": no timestamp.
F_notes_log == <<"n", "o", "t", "e", "s", ".", "l", "o", "g">>

\* b"2021-04-11\xe7" (tests::test_invalid_utf_entry): not valid UTF-8.
F_invalid_utf == <<"2", "0", "2", "1", "-", "0", "4", "-", "1", "1", "xE7">>

\* "\u{0662}015-01-01": \d{4} matches, "\u{0662}015" does not parse.
F_unicode_digit == <<"u0662", "0", "1", "5", "-", "0", "1", "-", "0", "1">>

FileNames ==
  {F_2014_12_31, F_2015_01_01, F_2015_01_01_log, F_2015_01_01_1030_log,
   F_2015_01_01_1045, F_2015_01_02_log, F_2015_02_01, F_notes_log,
   F_invalid_utf, F_unicode_digit}

\* The directory the paths live in: "bk".
BackupDir == <<"b", "k">>

\* DirEntry::path(): the directory joined with the name.
Join(dir, name) == [parent |-> dir, name |-> name]

\* "*.log" (tests::test_make_plan).
star_log == <<"*", ".", "l", "o", "g">>

\* The --pattern / --include lists drawn.
PatternInputs == {<<>>, <<star_log>>}

\* (?P<g1>\d{w}) ... for the given names, in the given order.
Grammar(names, width) ==
  [kind |-> "concat",
   groups |-> [k \in 1..Len(names) |-> [name |-> names[k], width |-> width[k]]]]

\* r"(?P<year>\d{2})(?P<month>\d{2})(?P<day>\d{2})" (tests::test_custom_regex)
ShortGrammar == Grammar(<<"year", "month", "day">>, <<2, 2, 2>>)

\* r"(?P<year>\d{6})(?P<month>\d{2})(?P<day>\d{2})": a year beyond u16.
WideGrammar == Grammar(<<"year", "month", "day">>, <<6, 2, 2>>)

\* Every grammar (?P<..>\d{2})... over a subset of the five names, in the
\* order year, month, day, hour, minute (tests::test_missing_named_group has
\* three of them).
SubsetGrammars ==
  {Grammar(SelectSeq(<<"year", "month", "day", "hour", "minute">>,
                     LAMBDA n : n \in S),
           [k \in 1..Cardinality(S) |-> 2]) :
     S \in SUBSET {"year", "month", "day", "hour", "minute"}}

\* The --regex values drawn: none, one that does not compile, the grammars above.
RegexInputs ==
  {None, Some(BadRegex), Some(WideGrammar),
   Some(Grammar(<<"day", "month", "year">>, <<2, 2, 2>>))}
  \cup {Some(g) : g \in SubsetGrammars}

\* usize values drawn for the retention counts.
UsizeSamples == {0, 1, USIZE_MOD \div 2, USIZE_MAX}

\* The toolchain and profile of the build.
Builds == [overflow_checks : BOOLEAN, collect_impl : {"insert", "bulk"}]

\* ------------------------------------------------------------------ state

VARIABLES
  build,           \* the build: overflow checks, the standard library's collect
  pc,              \* the call in progress
  caller,          \* who runs the flow: "main.rs", "config/mod.rs", "lib", "tests"
  parser,          \* ArgParser: the arguments
  fs,              \* the file system: the target directory, the config file
  slot_config,     \* what SlotConfig::new returned
  config,          \* what Config::new returned
  entries,         \* the Vec<PathBuf> handed to Plan::from
  plan,            \* what Plan::new / Plan::from returned
  cursor,          \* execute(): the index into to_remove of the next deletion
  attempts,        \* every remove_file call so far: <<path, succeeded>>
  read_dir_calls,  \* calls of read_dir on the target directory
  executed,        \* what Plan::execute returned
  result           \* what the flow returned to its caller

vars ==
  <<build, pc, caller, parser, fs, slot_config, config, entries, plan, cursor,
    attempts, read_dir_calls, executed, result>>

\* Not yet computed.
Unset == [tag |-> "Unset", v |-> <<>>]

ArgParser(path, pattern, counts, regex, execute, cfg) ==
  [path |-> path, pattern |-> pattern, yearly |-> counts[1], monthly |-> counts[2],
   daily |-> counts[3], hourly |-> counts[4], minutely |-> counts[5],
   regex |-> regex, execute |-> execute, config |-> cfg]

\* The file system: whether the target directory can be read, whether it is
\* read-only, the names in it, and the config file (None: there is none).
FileSystem(readable, readonly, names, config_file) ==
  [readable |-> readable, readonly |-> readonly, files |-> names,
   config_file |-> config_file]

\* A directory that can be read and written and holds the given names.
Directory(names) == FileSystem(TRUE, FALSE, names, None)

\* ------------------------------------------------------------------ SlotConfig::new

\* SlotConfig::new on the arguments, as argparser_to_plan and to_plan call it.
SlotConfigStep ==
  /\ pc = "SlotConfig::new"
  /\ slot_config' = SlotConfigNew(parser.yearly, parser.monthly, parser.daily,
                                  parser.hourly, parser.minutely,
                                  build.overflow_checks)
  /\ IF slot_config'.tag = "Ok"
     THEN /\ pc' = "Config::new"
          /\ result' = result
     ELSE /\ pc' = "returned"
          /\ result' = slot_config'
  /\ UNCHANGED <<build, caller, parser, fs, config, entries, plan, cursor,
                 attempts, read_dir_calls, executed>>

\* ------------------------------------------------------------------ Config::new

ConfigStep ==
  /\ pc = "Config::new"
  /\ config' = ConfigNew(slot_config.v, parser.pattern, parser.regex)
  /\ IF config'.tag = "Ok"
     THEN /\ pc' = "Plan::new"
          /\ result' = result
     ELSE /\ pc' = "returned"
          /\ result' = config'
  /\ UNCHANGED <<build, caller, parser, fs, slot_config, entries, plan, cursor,
                 attempts, read_dir_calls, executed>>

\* ------------------------------------------------------------------ Plan::from

\* Plan::from on a list of paths, as tests::test_make_plan calls it.
PlanFromStep ==
  /\ pc = "Plan::from"
  /\ plan' = PlanFrom(config.v, entries, build.collect_impl)
  /\ pc' = "planned"
  /\ result' = IF plan'.tag = "Panic" THEN Panic ELSE result
  /\ UNCHANGED <<build, caller, parser, fs, slot_config, config, entries, cursor,
                 attempts, read_dir_calls, executed>>

\* ------------------------------------------------------------------ SpecSlot

\* Arguments that leave everything but the named fields at their defaults.
DefaultCounts == <<1, 0, 0, 0, 0>>

\* SlotConfig::new over the sampled usize values, in both profiles.
InitSlot ==
  /\ build \in Builds
  /\ pc = "SlotConfig::new"
  /\ caller = "tests"
  /\ parser \in {ArgParser(BackupDir, <<>>, counts, None, FALSE, None) :
                   counts \in [1..5 -> UsizeSamples]}
  /\ fs = Directory({})
  /\ slot_config = Unset
  /\ config = Unset
  /\ entries = <<>>
  /\ plan = Unset
  /\ cursor = 0
  /\ attempts = <<>>
  /\ read_dir_calls = 0
  /\ executed = Unset
  /\ result = Unset

SpecSlot == InitSlot /\ [][SlotConfigStep]_vars

\* ------------------------------------------------------------------ SpecConfig

\* Config::new over the grammars and patterns drawn.
InitConfig ==
  /\ build \in Builds
  /\ pc = "Config::new"
  /\ caller = "tests"
  /\ parser \in {ArgParser(BackupDir, pattern, DefaultCounts, regex, FALSE, None) :
                   pattern \in PatternInputs, regex \in RegexInputs}
  /\ fs = Directory({})
  /\ slot_config = SlotConfigNew(1, 0, 0, 0, 0, build.overflow_checks)
  /\ config = Unset
  /\ entries = <<>>
  /\ plan = Unset
  /\ cursor = 0
  /\ attempts = <<>>
  /\ read_dir_calls = 0
  /\ executed = Unset
  /\ result = Unset

SpecConfig == InitConfig /\ [][ConfigStep]_vars

\* ------------------------------------------------------------------ SpecPlan

\* The paths of a set of names, least first.
RECURSIVE Ascending(_)
Ascending(paths) ==
  IF paths = {} THEN <<>>
  ELSE LET least == CHOOSE p \in paths : \A q \in paths : ~PathLess(q, p)
       IN <<least>> \o Ascending(paths \ {least})

Reversed(seq) == [i \in 1..Len(seq) |-> seq[Len(seq) + 1 - i]]

\* The orders in which a directory listing is drawn: read_dir promises none;
\* ascending and descending reach both relative orders of any two entries.
ListingOrders(dir, names) ==
  LET asc == Ascending({Join(dir, n) : n \in names})
  IN {asc, Reversed(asc)}

Listings ==
  UNION {ListingOrders(BackupDir, names) :
           names \in {S \in SUBSET FileNames : Cardinality(S) <= MaxFiles}}

\* The value SlotConfig::new returns for counts that are not all zero.
Slots(counts) ==
  SlotConfigNew(counts[1], counts[2], counts[3], counts[4], counts[5], FALSE).v

\* The retention counts planned with: up to two tiers in use, or all five
\* with one count.
SlotVectors ==
  {c \in [1..5 -> 0..MaxSlot] :
     /\ \E t \in 1..5 : c[t] > 0
     /\ \/ Cardinality({t \in 1..5 : c[t] > 0}) <= 2
        \/ \A t \in 1..5 : c[t] = c[1]}

\* The configurations planned with: the counts above with the built-in grammar
\* and no filter; one slot per tier with a filter or a supplied grammar.
PlanConfigs ==
  {ConfigNew(Slots(counts), <<>>, None) : counts \in SlotVectors}
  \cup {ConfigNew(Slots(<<1, 1, 1, 1, 1>>), <<star_log>>, None)}
  \cup {ConfigNew(Slots(<<1, 1, 1, 1, 1>>), <<>>, Some(g)) :
          g \in {ShortGrammar, WideGrammar}}

InitPlan ==
  /\ build \in {b \in Builds : ~b.overflow_checks}
  /\ pc = "Plan::from"
  /\ caller = "tests"
  /\ parser = ArgParser(BackupDir, <<>>, DefaultCounts, None, FALSE, None)
  /\ fs = Directory({})
  /\ slot_config = Unset
  /\ config \in PlanConfigs
  /\ entries \in Listings
  /\ plan = Unset
  /\ cursor = 0
  /\ attempts = <<>>
  /\ read_dir_calls = 0
  /\ executed = Unset
  /\ result = Unset

SpecPlan == InitPlan /\ [][PlanFromStep]_vars

\* ------------------------------------------------------------------ properties of a Plan

Elems(seq) == {seq[i] : i \in 1..Len(seq)}

\* Plan::from has returned a Plan.
Planned == pc = "planned" /\ plan.tag = "Ok"

\* The entry of a listed path, if it has one.
EntryOf(path) == BackupEntryNew(path, config.v.pattern, config.v.re)

\* The entries of the listed paths that pass the name filter and match the
\* grammar, in the order of the listing; their set; their paths.
ParsedEntries == FilterMap(config.v, entries)

ValidEntries == Elems(ParsedEntries)

ValidPaths == {e.path : e \in ValidEntries}

\* The entries among `valid` that share the tier-t key of e.
Bucket(valid, e, t) == {o \in valid : SlotKey(o, t) = SlotKey(e, t)}

\* e has the greatest (the least) ordering tuple of the set.
IsGreatest(e, set) ==
  \A o \in set : ~TupleLess(get_ordering_tuple(e), get_ordering_tuple(o))

IsLeast(e, set) ==
  \A o \in set : ~TupleLess(get_ordering_tuple(o), get_ordering_tuple(e))

\* The paths whose tier attribution contains tier t.
Attributed(t) ==
  {p \in DOMAIN plan.v.period_map : Periods[t] \in Elems(plan.v.period_map[p])}

\* The representative Plan::from holds per key of tier t, given the entries it
\* collected.
Representatives(collected, t) == SlotMap(collected, t)

\* C1: to_keep and to_remove are disjoint, and together they are exactly the
\* listed paths that pass the name filter and match the grammar (so their
\* lengths add up to the number of valid paths, also when several carry one
\* timestamp).
C1_Partition ==
  Planned =>
    /\ Elems(plan.v.to_keep) \cap Elems(plan.v.to_remove) = {}
    /\ Elems(plan.v.to_keep) \cup Elems(plan.v.to_remove) = ValidPaths
    /\ Len(plan.v.to_keep) + Len(plan.v.to_remove) = Cardinality(ValidPaths)

\* C2 (as stated): the representative of every group of every tier has the
\* greatest ordering tuple of its group.
C2_MostRecent ==
  Planned =>
    LET parsed == ParsedEntries
        valid == Elems(parsed)
        collected == Collect(parsed, build.collect_impl)
    IN \A t \in 1..5 :
         LET reps == Representatives(collected, t)
         IN \A k \in DOMAIN reps :
              LET r == reps[k] IN IsGreatest(r, Bucket(valid, r, t))

\* C2 (amended): the representative of every group of every tier is a valid
\* entry of that group with the least ordering tuple of the group, and every
\* path a tier is attributed to is such an entry.
C2_Oldest ==
  Planned =>
    LET parsed == ParsedEntries
        valid == Elems(parsed)
        collected == Collect(parsed, build.collect_impl)
    IN \A t \in 1..5 :
         LET reps == Representatives(collected, t)
         IN
         /\ DOMAIN reps = {SlotKey(e, t) : e \in valid}
         /\ \A k \in DOMAIN reps :
              LET r == reps[k]
              IN /\ r \in valid
                 /\ SlotKey(r, t) = k
                 /\ IsLeast(r, Bucket(valid, r, t))
         /\ \A p \in Attributed(t) :
              \E e \in valid : e.path = p /\ IsLeast(e, Bucket(valid, e, t))

\* A tier has kept the representative of a group that holds a later entry.
C2_Witness ==
  /\ Planned
  /\ LET valid == ValidEntries
     IN \E t \in 1..5 : \E p \in Attributed(t) : \E e \in valid :
          /\ e.path = p
          /\ ~IsGreatest(e, Bucket(valid, e, t))

\* The keys of tier t with fewer than n greater keys: the n greatest.
GreatestKeys(keys, n) ==
  {k \in keys : Cardinality({o \in keys : TupleLess(k, o)}) < n}

Min(a, b) == IF a < b THEN a ELSE b

WithOneMore(cfg, t) ==
  [cfg EXCEPT !.slots =
     [yearly |-> @.yearly + (IF t = 1 THEN 1 ELSE 0),
      monthly |-> @.monthly + (IF t = 2 THEN 1 ELSE 0),
      daily |-> @.daily + (IF t = 3 THEN 1 ELSE 0),
      hourly |-> @.hourly + (IF t = 4 THEN 1 ELSE 0),
      minutely |-> @.minutely + (IF t = 5 THEN 1 ELSE 0)]]

\* C4: with one more slot in any single tier, the same listing gives a
\* to_keep that contains the former one and a to_remove contained in the
\* former one.
C4_Monotonic ==
  Planned =>
    \A t \in 1..5 :
      LET more == PlanFrom(WithOneMore(config.v, t), entries, build.collect_impl)
      IN /\ more.tag = "Ok"
         /\ Elems(plan.v.to_keep) \subseteq Elems(more.v.to_keep)
         /\ Elems(more.v.to_remove) \subseteq Elems(plan.v.to_remove)

\* C5: every path of to_keep is a key of period_map with a non-empty tier
\* list, and no path of to_remove is a key of period_map.
C5_PeriodMap ==
  Planned =>
    /\ \A p \in Elems(plan.v.to_keep) :
         p \in DOMAIN plan.v.period_map /\ plan.v.period_map[p] # <<>>
    /\ \A p \in Elems(plan.v.to_remove) : p \notin DOMAIN plan.v.period_map

\* A captured group that parses as an unsigned integer of the given width.
ParsesAs(capture, max) == capture.some /\ ParseUint(capture.v, max).some

\* C6: a listed name that is not valid UTF-8, fails a non-empty name filter,
\* does not match the grammar, or has a year, month or day that does not
\* parse in its field's width, has no entry and is in neither to_keep nor
\* to_remove (nor a key of period_map); any other name has an entry, and with
\* an empty filter the grammar alone decides.
C6_Excluded ==
  Planned =>
    \A p \in Elems(entries) :
      LET cfg == config.v
          not_utf8 == \E i \in 1..Len(p.name) : p.name[i] \in InvalidBytes
          filtered == /\ cfg.pattern # <<>>
                      /\ \A k \in 1..Len(cfg.pattern) :
                           ~WildMatches(cfg.pattern[k], p.name)
          m == Captures(cfg.re, p.name)
          unparsed == \/ ~m.some
                      \/ ~ParsesAs(m.v["year"], U16_MAX)
                      \/ ~ParsesAs(m.v["month"], U8_MAX)
                      \/ ~ParsesAs(m.v["day"], U8_MAX)
          listed == Elems(plan.v.to_keep) \cup Elems(plan.v.to_remove)
      IN IF not_utf8 \/ filtered \/ unparsed
         THEN /\ ~EntryOf(p).some
              /\ p \notin listed
              /\ p \notin DOMAIN plan.v.period_map
         ELSE /\ EntryOf(p).some
              /\ EntryOf(p).v.path = p
              /\ \E q \in listed : cmp(EntryOf(q).v, EntryOf(p).v) = "Equal"

\* A plan over a listing with a name that is not UTF-8, a name the filter
\* rejects and a name that is kept.
C6_Witness ==
  /\ Planned
  /\ config.v.pattern # <<>>
  /\ plan.v.to_keep # <<>>
  /\ \E p \in Elems(entries) : ~ToStr(p.name).some
  /\ \E p \in Elems(entries) :
       /\ ToStr(p.name).some
       /\ Captures(config.v.re, p.name).some
       /\ \A k \in 1..Len(config.v.pattern) : ~WildMatches(config.v.pattern[k], p.name)

\* The names of the listing Plan::from was given.
ListedNames == {p.name : p \in Elems(entries)}

\* C11: Plan::from on the same names, in any order a listing may supply them
\* (the order it was given included), returns the Plan it returned: the same
\* to_keep, to_remove and period_map.
C11_OrderIndependent ==
  Planned =>
    \A listing \in ListingOrders(BackupDir, ListedNames) :
      LET again == PlanFrom(config.v, listing, build.collect_impl)
      IN /\ again.tag = "Ok"
         /\ again.v.to_keep = plan.v.to_keep
         /\ again.v.to_remove = plan.v.to_remove
         /\ DOMAIN again.v.period_map = DOMAIN plan.v.period_map
         /\ \A p \in DOMAIN plan.v.period_map :
              again.v.period_map[p] = plan.v.period_map[p]

\* The valid entries with the greatest ordering tuple: the newest backup.
Newest(valid) == {e \in valid : IsGreatest(e, valid)}

\* Tier t has slots, and the newest backup is the oldest of its tier-t group:
\* no valid entry of that group has a lesser tuple.
NewestIsOldestOfGroup(valid, t) ==
  /\ SlotCount(config.v.slots, t) > 0
  /\ \A e \in Newest(valid) : IsLeast(e, Bucket(valid, e, t))

Configured == config.tag # "Unset"

\* The named groups of the grammar Config::new is given.
SuppliedNames ==
  IF parser.regex.some
  THEN {parser.regex.v.groups[k].name : k \in 1..Len(parser.regex.v.groups)}
  ELSE GroupNames

IsErr(res, e) == res.tag = "Err" /\ res.v = e

\* C9: InvalidRegex when the grammar does not compile; otherwise
\* MissingCaptureGroup(g) for the first of year, month, day the grammar lacks;
\* otherwise (the built-in grammar included) Ok.
C9_ConfigNew ==
  Configured =>
    IF parser.regex.some /\ parser.regex.v.kind = "invalid"
    THEN IsErr(config, <<"InvalidRegex">>)
    ELSE IF "year" \notin SuppliedNames
    THEN IsErr(config, <<"MissingCaptureGroup", "year">>)
    ELSE IF "month" \notin SuppliedNames
    THEN IsErr(config, <<"MissingCaptureGroup", "month">>)
    ELSE IF "day" \notin SuppliedNames
    THEN IsErr(config, <<"MissingCaptureGroup", "day">>)
    ELSE /\ config.tag = "Ok"
         /\ config.v.slots = slot_config.v
         /\ config.v.pattern = parser.pattern
         /\ config.v.re = (IF parser.regex.some THEN parser.regex.v ELSE RE)

\* A grammar that lacks month and day is reported as lacking month.
C9_Witness ==
  /\ Configured
  /\ parser.regex.some
  /\ parser.regex.v.kind # "invalid"
  /\ "year" \in SuppliedNames
  /\ "month" \notin SuppliedNames
  /\ "day" \notin SuppliedNames
  /\ IsErr(config, <<"MissingCaptureGroup", "month">>)

\* ------------------------------------------------------------------ properties of SlotConfig::new

\* C10: SlotConfig::new fails with NoSlot exactly when the five counts are
\* all zero, and otherwise returns Ok with the five counts unchanged.
C10_NoSlotIffAllZero ==
  slot_config.tag # "Unset" =>
    IF /\ parser.yearly = 0 /\ parser.monthly = 0 /\ parser.daily = 0
       /\ parser.hourly = 0 /\ parser.minutely = 0
    THEN IsErr(slot_config, <<"NoSlot">>)
    ELSE /\ slot_config.tag = "Ok"
         /\ slot_config.v = [yearly |-> parser.yearly, monthly |-> parser.monthly,
                             daily |-> parser.daily, hourly |-> parser.hourly,
                             minutely |-> parser.minutely]

\* ------------------------------------------------------------------ config::file::from

\* The content of a config file: whether it can be read, whether it is valid
\* TOML of the expected shape, and the values it holds.
ConfigFile(readable, parses, counts, pattern, regex) ==
  [readable |-> readable, parses |-> parses, counts |-> counts,
   pattern |-> pattern, regex |-> regex]

\* config::file::from, as to_plan calls it when --config is given.
ConfigFileStep ==
  /\ pc = "config::file::from"
  /\ IF ~fs.config_file.some \/ ~fs.config_file.v.readable
     THEN /\ result' = Err(<<"Can't read config from file">>)
          /\ pc' = "returned"
          /\ UNCHANGED <<slot_config, config>>
     ELSE IF ~fs.config_file.v.parses
     THEN /\ result' = Err(<<"Problem parsing config">>)
          /\ pc' = "returned"
          /\ UNCHANGED <<slot_config, config>>
     ELSE LET file == fs.config_file.v
              slots == SlotConfigNew(file.counts[1], file.counts[2], file.counts[3],
                                     file.counts[4], file.counts[5],
                                     build.overflow_checks)
          IN /\ slot_config' = slots
             /\ IF slots.tag # "Ok"
                THEN /\ config' = config
                     /\ result' = slots
                     /\ pc' = "returned"
                ELSE /\ config' = ConfigNew(slots.v, file.pattern, file.regex)
                     /\ IF config'.tag = "Ok"
                        THEN /\ pc' = "Plan::new"
                             /\ result' = result
                        ELSE /\ pc' = "returned"
                             /\ result' = config'
  /\ UNCHANGED <<build, caller, parser, fs, entries, plan, cursor, attempts,
                 read_dir_calls, executed>>

\* ------------------------------------------------------------------ Plan::new

\* What follows a Plan: main executes or prints it, to_plan returns it, a
\* caller of the library executes it.
AfterPlan ==
  IF caller = "main.rs" THEN (IF parser.execute THEN "execute" ELSE "println")
  ELSE IF caller = "config/mod.rs" THEN "returned"
  ELSE "execute"

\* plan.path = Some(path.as_ref().to_path_buf()), on the Plan that Plan::from
\* returned.
WithPath(from, path) ==
  IF from.tag = "Ok" THEN Ok([from.v EXCEPT !.path = Some(path)]) ELSE from

\* Plan::new: read_dir, the paths of the entries in the order the listing
\* gives them, Plan::from, and the directory recorded in the plan.
PlanNewStep ==
  /\ pc = "Plan::new"
  /\ read_dir_calls' = read_dir_calls + 1
  /\ IF ~fs.readable
     THEN /\ plan' = Err(<<"ReadDirError">>)
          /\ entries' = entries
          /\ pc' = "returned"
          /\ result' = plan'
     ELSE /\ \E listing \in ListingOrders(parser.path, fs.files) :
               /\ entries' = listing
               /\ plan' = WithPath(PlanFrom(config.v, listing, build.collect_impl),
                                   parser.path)
          /\ pc' = IF plan'.tag = "Ok" THEN AfterPlan ELSE "returned"
          /\ result' = IF plan'.tag # "Ok" \/ caller = "config/mod.rs"
                       THEN plan' ELSE result
  /\ UNCHANGED <<build, caller, parser, fs, slot_config, config, cursor, attempts,
                 executed>>

\* ------------------------------------------------------------------ Plan::execute

\* execute() returns (or panics): main drops the value and returns Ok(()).
Return(value) ==
  /\ pc' = "returned"
  /\ executed' = value
  /\ result' = IF caller = "main.rs" /\ value.tag # "Panic" THEN Ok(<<>>) ELSE value

\* The writability test: metadata() may fail, whatever read_dir did
\* before; a read-only directory is refused, after a log line that unwraps
\* the directory's to_str.
ExecuteStep ==
  /\ pc = "execute"
  /\ \E metadata \in {"Ok", "Err"} :
       IF plan.v.path.some /\ metadata = "Err"
       THEN Return(Err(<<"ReadDirError">>)) /\ cursor' = cursor
       ELSE IF plan.v.path.some /\ fs.readonly
       THEN /\ Return(IF ToStr(plan.v.path.v).some
                      THEN Err(<<"PathPermissionError">>) ELSE Panic)
            /\ cursor' = cursor
       ELSE /\ pc' = "remove_file"
            /\ cursor' = 1
            /\ UNCHANGED <<executed, result>>
  /\ UNCHANGED <<build, caller, parser, fs, slot_config, config, entries, plan,
                 attempts, read_dir_calls>>

\* One turn of the loop over to_remove: to_str().unwrap(), then remove_file,
\* which succeeds or fails; either is logged and the loop goes on.
RemoveStep ==
  /\ pc = "remove_file"
  /\ cursor <= Len(plan.v.to_remove)
  /\ LET p == plan.v.to_remove[cursor]
     IN IF ~PathToStr(p).some
        THEN /\ Return(Panic)
             /\ UNCHANGED <<fs, attempts, cursor>>
        ELSE /\ \E removed \in BOOLEAN :
                  /\ attempts' = Append(attempts, [path |-> p, removed |-> removed])
                  /\ fs' = IF removed THEN [fs EXCEPT !.files = @ \ {p.name}] ELSE fs
             /\ cursor' = cursor + 1
             /\ UNCHANGED <<pc, executed, result>>
  /\ UNCHANGED <<build, caller, parser, slot_config, config, entries, plan,
                 read_dir_calls>>

\* The loop is over: Ok(()).
ExecuteReturn ==
  /\ pc = "remove_file"
  /\ cursor > Len(plan.v.to_remove)
  /\ Return(Ok(<<>>))
  /\ UNCHANGED <<build, caller, parser, fs, slot_config, config, entries, plan,
                 cursor, attempts, read_dir_calls>>

\* ------------------------------------------------------------------ Display for Plan

\* println!("{}", plan): every path of to_keep and to_remove is unwrapped
\* from to_str, every path of to_keep is looked up in period_map.
PrintStep ==
  /\ pc = "println"
  /\ pc' = "returned"
  /\ result' =
       IF \/ \E p \in Elems(plan.v.to_keep) \cup Elems(plan.v.to_remove) :
               ~PathToStr(p).some
          \/ \E p \in Elems(plan.v.to_keep) : p \notin DOMAIN plan.v.period_map
       THEN Panic ELSE Ok(<<>>)
  /\ UNCHANGED <<build, caller, parser, fs, slot_config, config, entries, plan,
                 cursor, attempts, read_dir_calls, executed>>

\* ------------------------------------------------------------------ Spec

\* A directory whose name is not valid UTF-8: Plan::new takes any
\* AsRef<Path>, the command line only a String.
NonUtf8Dir == <<"b", "xE7">>

\* The names the target directory may hold.
DirectoryNames == {F_2014_12_31, F_2015_01_01, F_2015_01_01_log, F_invalid_utf}

\* The target directories: readable ones, writable or read-only, with up to
\* MaxFiles names; one that read_dir fails on.
Directories ==
  {FileSystem(TRUE, readonly, names, None) :
     readonly \in BOOLEAN,
     names \in {S \in SUBSET DirectoryNames : Cardinality(S) <= MaxFiles}}
  \cup {FileSystem(FALSE, FALSE, {}, None)}

\* The retention counts given on the command line or in the config file.
CountInputs == {<<0, 0, 0, 0, 0>>, <<1, 0, 0, 0, 0>>, <<0, 0, 0, 0, 1>>}

\* The grammars given: none, one that does not compile, one without year,
\* one with the three required groups.
GrammarInputs ==
  {None, Some(BadRegex), Some(Grammar(<<"month", "day">>, <<2, 2>>)),
   Some(ShortGrammar)}

\* The config files: one that is not valid TOML, and valid ones. (A missing
\* or unreadable file is fs.config_file = None.)
ConfigFiles ==
  {ConfigFile(TRUE, FALSE, <<0, 0, 0, 0, 0>>, <<>>, None)}
  \cup {ConfigFile(TRUE, TRUE, counts, <<>>, regex) :
          counts \in CountInputs, regex \in GrammarInputs}

\* src/main.rs: the arguments go through argparser_to_plan.
InitMain ==
  /\ caller = "main.rs"
  /\ pc = "SlotConfig::new"
  /\ parser \in {ArgParser(BackupDir, pattern, counts, regex, execute, None) :
                   pattern \in PatternInputs, counts \in CountInputs,
                   regex \in GrammarInputs, execute \in BOOLEAN}
  /\ fs \in Directories
  /\ config = Unset

\* src/config/mod.rs: to_plan, with --config or without.
InitToPlan ==
  /\ caller = "config/mod.rs"
  /\ \/ /\ pc = "SlotConfig::new"
        /\ parser \in {ArgParser(BackupDir, <<>>, counts, regex, FALSE, None) :
                         counts \in CountInputs, regex \in GrammarInputs}
        /\ fs \in Directories
     \/ /\ pc = "config::file::from"
        /\ parser = ArgParser(BackupDir, <<>>, <<0, 0, 0, 0, 0>>, None, FALSE,
                              Some(<<"c">>))
        /\ fs \in {[d EXCEPT !.config_file = file] :
                     d \in Directories,
                     file \in {None} \cup {Some(f) : f \in ConfigFiles}}
  /\ config = Unset

\* A caller of the library: Plan::new on a Config and any path, then execute().
InitLib ==
  /\ caller = "lib"
  /\ pc = "Plan::new"
  /\ parser \in {ArgParser(dir, <<>>, <<0, 0, 0, 0, 0>>, None, TRUE, None) :
                   dir \in {BackupDir, NonUtf8Dir}}
  /\ fs \in Directories
  /\ config \in {ConfigNew(Slots(counts), <<>>, None) :
                   counts \in CountInputs \ {<<0, 0, 0, 0, 0>>}}

Init ==
  /\ build \in {b \in Builds : ~b.overflow_checks}
  /\ InitMain \/ InitToPlan \/ InitLib
  /\ slot_config = Unset
  /\ entries = <<>>
  /\ plan = Unset
  /\ cursor = 0
  /\ attempts = <<>>
  /\ read_dir_calls = 0
  /\ executed = Unset
  /\ result = Unset

Next ==
  \/ SlotConfigStep
  \/ ConfigStep
  \/ ConfigFileStep
  \/ PlanNewStep
  \/ ExecuteStep
  \/ RemoveStep
  \/ ExecuteReturn
  \/ PrintStep

Spec == Init /\ [][Next]_vars

\* ------------------------------------------------------------------ properties of execute()

\* The paths remove_file has been called on, in order.
Attempted == [i \in 1..Len(attempts) |-> attempts[i].path]

\* execute() is past the writability test of the directory.
PastPrecondition == cursor > 0

\* C7: once execute() is past the writability test, the deletions
\* attempted are the paths of to_remove in order, each once, whatever the
\* outcome of the earlier ones; none of them is a path of to_keep; and
\* execute() returns Ok after an attempt on every path of to_remove.
C7_Execute ==
  PastPrecondition =>
    /\ Len(attempts) <= Len(plan.v.to_remove)
    /\ Attempted = SubSeq(plan.v.to_remove, 1, Len(attempts))
    /\ \A i, j \in 1..Len(attempts) : i # j => Attempted[i] # Attempted[j]
    /\ \A i \in 1..Len(attempts) :
         /\ Attempted[i] \in Elems(plan.v.to_remove)
         /\ Attempted[i] \notin Elems(plan.v.to_keep)
    /\ pc = "remove_file" => Len(attempts) = cursor - 1
    /\ pc = "returned" =>
         /\ executed = Ok(<<>>)
         /\ Len(attempts) = Len(plan.v.to_remove)

\* ------------------------------------------------------------------ properties of the command-line flows

\* The counts and the grammar the flow builds its Config from: those of the
\* config file when --config names one that reads and parses, the arguments
\* otherwise.
FromFile == caller = "config/mod.rs" /\ parser.config.some

Supplied ==
  IF FromFile
  THEN [counts |-> fs.config_file.v.counts, regex |-> fs.config_file.v.regex]
  ELSE [counts |-> <<parser.yearly, parser.monthly, parser.daily, parser.hourly,
                     parser.minutely>>,
        regex |-> parser.regex]

\* The counts are all zero, or the grammar does not compile or lacks one of
\* year, month, day.
BadConfiguration ==
  /\ caller \in {"main.rs", "config/mod.rs"}
  /\ FromFile => fs.config_file.some /\ fs.config_file.v.readable
                   /\ fs.config_file.v.parses
  /\ \/ \A t \in 1..5 : Supplied.counts[t] = 0
     \/ /\ Supplied.regex.some
        /\ \/ Supplied.regex.v.kind = "invalid"
           \/ \E g \in {"year", "month", "day"} :
                g \notin {Supplied.regex.v.groups[k].name :
                            k \in 1..Len(Supplied.regex.v.groups)}

\* C8: with such a configuration the flow never calls read_dir, has no Plan
\* and attempts no deletion, in any state; and what it returns is the error:
\* NoSlot, InvalidRegex or MissingCaptureGroup.
C8_AbortBeforeScan ==
  BadConfiguration =>
    /\ read_dir_calls = 0
    /\ plan = Unset
    /\ entries = <<>>
    /\ attempts = <<>>
    /\ pc \in {"SlotConfig::new", "Config::new", "config::file::from", "returned"}
    /\ pc = "returned" =>
         /\ result.tag = "Err"
         /\ result.v[1] \in {"NoSlot", "InvalidRegex", "MissingCaptureGroup"}

\* A grammar without year was given with counts that are not all zero, on a
\* directory that holds files, and the flow has returned.
C8_Witness ==
  /\ BadConfiguration
  /\ pc = "returned"
  /\ \E t \in 1..5 : Supplied.counts[t] > 0
  /\ result = Err(<<"MissingCaptureGroup", "year">>)
  /\ fs.readable
  /\ fs.files # {}
  /\ read_dir_calls = 0

====
